---- MODULE Spec2Model ----
(***************************************************************************)
(* A model of brand_extractor.py: the BrandExtractor pipeline              *)
(* (fetch_page / extract_css / analyze_styles / get_top_* /                *)
(* analyze_themes / generate_pdf_report / generate_json_report /           *)
(* extract_branding) and the command-line entry point (main, __main__).    *)
(*                                                                         *)
(* Text is modelled at the granularity the regular expressions of          *)
(* analyze_styles see it.  A style source is a sequence of items, one per  *)
(* place where one of the patterns can match:                              *)
(*   - a ":root { ... }" block with its "--name: value;" declarations,     *)
(*   - a "font-family: a, b, c" declaration with its comma-separated raw   *)
(*     candidates,                                                         *)
(*   - a "#" followed by a run of hexadecimal digits,                      *)
(*   - an "rgb(r, g, b)" literal, an "rgba(r, g, b, a)" literal.           *)
(* Font text is a sequence of atoms (a blank, a quote, "var(", "--", ")",  *)
(* or a word); hexadecimal text is a sequence of one-character strings.    *)
(* Python dicts and Counters keep insertion order: each is a sequence of   *)
(* entries [k |-> key, v |-> value].                                       *)
(***************************************************************************)
EXTENDS Integers, Sequences, FiniteSets, TLC

(***************************************************************************)
(* Python built-ins used by the code                                       *)
(***************************************************************************)

Min(a, b) == IF a <= b THEN a ELSE b

\* F applied to the value of x: one statement after another.  x is evaluated
\* before F is entered, so a loop of n steps is not passed on as an
\* unevaluated expression n steps deep.
Then(x, F(_)) == CHOOSE r \in {F(v) : v \in {x}} : TRUE

\* s[a:b] for 0 <= a <= b
Slice(s, a, b) == IF a >= Min(b, Len(s)) THEN <<>> ELSE SubSeq(s, a + 1, Min(b, Len(s)))

\* str.lower on one atom / character
LowerAtom(a) ==
    CASE a = "A" -> "a" [] a = "B" -> "b" [] a = "C" -> "c"
      [] a = "D" -> "d" [] a = "E" -> "e" [] a = "F" -> "f"
      [] a = "SERIF" -> "serif"
      [] a = "Arial" -> "arial"
      [] a = "Georgia" -> "georgia"
      [] a = "Helvetica" -> "helvetica"
      [] a = "Neue" -> "neue"
      [] a = "Verdana" -> "verdana"
      [] OTHER -> a

\* str.lower
Lower(s) == [i \in 1..Len(s) |-> LowerAtom(s[i])]

\* str.lstrip(chars): s from its first character that is not in chars
LStrip(s, chars) ==
    LET kept == {i \in 1..Len(s) : s[i] \notin chars}
    IN  IF kept = {} THEN <<>>
        ELSE SubSeq(s, CHOOSE i \in kept : \A j \in kept : i <= j, Len(s))

\* str.rstrip(chars): s up to its last character that is not in chars
RStrip(s, chars) ==
    LET kept == {i \in 1..Len(s) : s[i] \notin chars}
    IN  IF kept = {} THEN <<>>
        ELSE SubSeq(s, 1, CHOOSE i \in kept : \A j \in kept : i >= j)

\* str.strip(chars)
Strip(s, chars) == RStrip(LStrip(s, chars), chars)

\* the characters str.strip() removes
Whitespace == {" "}

\* the characters of strip("'\"")
Quotes == {"'", "\""}

\* str.startswith('var(')
StartsWithVar(s) == s # <<>> /\ Head(s) = "var("

\* the digits of format spec 'x', indexed by value + 1
HexDigitOf == <<"0", "1", "2", "3", "4", "5", "6", "7",
                "8", "9", "a", "b", "c", "d", "e", "f">>

RECURSIVE HexDigits(_)
\* format(n, 'x'): the lowercase hexadecimal digits of n >= 0
HexDigits(n) ==
    IF n < 16 THEN <<HexDigitOf[n + 1]>>
    ELSE Append(HexDigits(n \div 16), HexDigitOf[(n % 16) + 1])

\* f'{n:02x}': zero-padded to a width of at least two
Format02x(n) == IF n < 16 THEN <<"0">> \o HexDigits(n) ELSE HexDigits(n)

\* the value of one character as a base-16 digit, -1 when it is none
HexValue(c) ==
    IF \E i \in 1..16 : HexDigitOf[i] = LowerAtom(c)
    THEN (CHOOSE i \in 1..16 : HexDigitOf[i] = LowerAtom(c)) - 1
    ELSE -1

RECURSIVE IntBase16(_)
\* int(s, 16); -1 stands for the ValueError it raises
IntBase16(s) ==
    IF s = <<>> THEN -1
    ELSE IF Len(s) = 1 THEN HexValue(s[1])
    ELSE LET hi == IntBase16(SubSeq(s, 1, Len(s) - 1))
             lo == HexValue(s[Len(s)])
         IN  IF hi < 0 \/ lo < 0 THEN -1 ELSE 16 * hi + lo

(***************************************************************************)
(* dict and Counter                                                        *)
(***************************************************************************)

\* key in d
DictHas(d, k) == \E i \in 1..Len(d) : d[i].k = k

\* d.get(k, default); for a Counter, d[k] with default 0
DictGet(d, k, default) ==
    IF DictHas(d, k) THEN d[CHOOSE i \in 1..Len(d) : d[i].k = k].v ELSE default

\* d[k] = v: an existing key keeps its place, a new one goes last
DictPut(d, k, v) ==
    IF DictHas(d, k)
    THEN [i \in 1..Len(d) |-> IF d[i].k = k THEN [k |-> k, v |-> v] ELSE d[i]]
    ELSE Append(d, [k |-> k, v |-> v])

\* list(d.keys())
DictKeys(d) == [i \in 1..Len(d) |-> d[i].k]

\* list(d.values())
DictValues(d) == [i \in 1..Len(d) |-> d[i].v]

KeySet(d) == {d[i].k : i \in 1..Len(d)}

\* counter[k] += 1
CounterInc(c, k) == DictPut(c, k, DictGet(c, k, 0) + 1)

RECURSIVE InsertDescAfterTies(_, _)
\* InsertDesc with entries of equal count put before x: the order of an
\* unstable sort
InsertDescAfterTies(x, sorted) ==
    IF sorted = <<>> THEN <<x>>
    ELSE IF Head(sorted).v < x.v THEN <<x>> \o sorted
    ELSE <<Head(sorted)>> \o InsertDescAfterTies(x, Tail(sorted))

RECURSIVE InsertDesc(_, _)
\* x placed in a list sorted by count, largest first, before the first entry
\* whose count is not larger than x's
InsertDesc(x, sorted) ==
    IF sorted = <<>> THEN <<x>>
    ELSE IF Head(sorted).v <= x.v THEN <<x>> \o sorted
    ELSE <<Head(sorted)>> \o InsertDesc(x, Tail(sorted))

RECURSIVE SortedDesc(_)
\* sorted(c.items(), key=itemgetter(1), reverse=True): stable, so entries
\* of equal count keep their insertion order
SortedDesc(c) ==
    IF c = <<>> THEN <<>> ELSE InsertDesc(Head(c), SortedDesc(Tail(c)))

\* Counter.most_common(n) for n >= 0
MostCommon(c, n) == SubSeq(SortedDesc(c), 1, Min(n, Len(c)))

(***************************************************************************)
(* Style-source text, as the patterns of analyze_styles see it             *)
(***************************************************************************)

\* one "--name: value;" declaration of a :root block, as root_var_pattern
\* captures it: the text between "--" and ":", and the text up to ";"
VarDecl(name, value) == [name |-> name, value |-> value]

\* ":root { ... }" up to the first "}", with its declarations in text order
RootBlock(decls) ==
    [k |-> "root", decls |-> decls, cands |-> <<>>, run |-> <<>>,
     r |-> 0, g |-> 0, b |-> 0, a |-> <<>>]

\* "font-family: c1, c2, ..." up to the next ";": the captured value, split
\* on its commas
FontFamily(cands) ==
    [k |-> "font", decls |-> <<>>, cands |-> cands, run |-> <<>>,
     r |-> 0, g |-> 0, b |-> 0, a |-> <<>>]

\* "#" and the characters that follow it up to the next delimiter
HexLit(run) ==
    [k |-> "hex", decls |-> <<>>, cands |-> <<>>, run |-> run,
     r |-> 0, g |-> 0, b |-> 0, a |-> <<>>]

\* "rgb(r, g, b)" with decimal components
RgbLit(r, g, b) ==
    [k |-> "rgb", decls |-> <<>>, cands |-> <<>>, run |-> <<>>,
     r |-> r, g |-> g, b |-> b, a |-> <<>>]

\* "rgba(r, g, b, a)" with decimal r, g, b; a is the text between the last
\* comma, the blanks after it, and ")"
RgbaLit(r, g, b, a) ==
    [k |-> "rgba", decls |-> <<>>, cands |-> <<>>, run |-> <<>>,
     r |-> r, g |-> g, b |-> b, a |-> a]

\* pattern.findall(text): the places of one pattern, in text order
ItemsOfKind(text, kind) == SelectSeq(text, LAMBDA item : item.k = kind)

\* the characters of the class [0-9.]
AlphaChars == {"0", "1", "2", "3", "4", "5", "6", "7", "8", "9", "."}

\* the last group of rgba_pattern, ([0-9.]+) and then ")", matches the text a
MatchesAlpha(a) == a # <<>> /\ \A i \in 1..Len(a) : a[i] \in AlphaChars

\* rgba_pattern.findall(text)
RgbaMatches(text) ==
    SelectSeq(text, LAMBDA item : item.k = "rgba" /\ MatchesAlpha(item.a))

\* the longest prefix of hexadecimal digits
HexPrefix(run) ==
    LET others == {i \in 1..Len(run) : HexValue(run[i]) < 0}
    IN  IF others = {} THEN run
        ELSE SubSeq(run, 1, (CHOOSE i \in others : \A j \in others : i <= j) - 1)

\* the group of color_pattern #([0-9a-fA-F]{3,6}) at one "#": greedy, three
\* to six digits; <<>> when the pattern does not match there
ColorPatternGroup(run) ==
    IF Len(HexPrefix(run)) >= 3 THEN Slice(HexPrefix(run), 0, 6) ELSE <<>>

(***************************************************************************)
(* analyze_styles                                                          *)
(***************************************************************************)

\* the keywords a font candidate is compared with
GenericKeywords ==
    {<<"inherit">>, <<"initial">>, <<"unset">>, <<"serif">>, <<"sans-serif">>,
     <<"monospace">>, <<"cursive">>, <<"fantasy">>}

\* the aggregate analyze_styles updates
EmptyAggregate ==
    [css_variables |-> <<>>, fonts |-> {}, colors |-> {},
     font_frequency |-> <<>>, color_frequency |-> <<>>]

\* self.css_variables[f"var(--{var.strip()})"] = value.strip()
\* SetVariable that keeps the value a key already has
SetVariableOnce(vars, decl) ==
    IF DictHas(vars, <<"var(", "--">> \o Strip(decl.name, Whitespace) \o <<")">>)
    THEN vars
    ELSE DictPut(vars, <<"var(", "--">> \o Strip(decl.name, Whitespace) \o <<")">>,
                 Strip(decl.value, Whitespace))

SetVariable(vars, decl) ==
    DictPut(vars, <<"var(", "--">> \o Strip(decl.name, Whitespace) \o <<")">>,
            Strip(decl.value, Whitespace))

RECURSIVE CollectBlock(_, _)
\* the declarations of one :root block, in text order
CollectBlock(vars, decls) ==
    IF decls = <<>> THEN vars
    ELSE Then(SetVariable(vars, Head(decls)),
              LAMBDA next : CollectBlock(next, Tail(decls)))

RECURSIVE CollectBlocks(_, _)
\* the :root blocks of one source, in text order
CollectBlocks(vars, blocks) ==
    IF blocks = <<>> THEN vars
    ELSE Then(CollectBlock(vars, Head(blocks).decls),
              LAMBDA next : CollectBlocks(next, Tail(blocks)))

RECURSIVE CollectVariables(_, _)
\* the first loop of analyze_styles, over self.styles.values()
CollectVariables(vars, texts) ==
    IF texts = <<>> THEN vars
    ELSE Then(CollectBlocks(vars, ItemsOfKind(Head(texts), "root")),
              LAMBDA next : CollectVariables(next, Tail(texts)))

\* f.strip().strip("'\"") of one comma-separated candidate
CleanFont(cand) == Strip(Strip(cand, Whitespace), Quotes)

\* font.lower() not in [...]
PassesGenericFilter(font) == Lower(font) \notin GenericKeywords

\* ResolveFont without the look-up: a var(...) candidate keeps its text
ResolveFontLiteral(vars_, font) == font

\* if font.startswith('var('): font = self.css_variables.get(font, font)
ResolveFont(vars_, font) ==
    IF StartsWithVar(font) THEN DictGet(vars_, font, font) ELSE font

\* self.font_frequency[font] += 1; self.fonts.add(font)
RecordFont(agg, font) ==
    [agg EXCEPT !.font_frequency = CounterInc(@, font), !.fonts = @ \cup {font}]

\* RecordColor without the count: self.colors.add(color) alone
RecordColorUncounted(agg, color) == [agg EXCEPT !.colors = @ \cup {color}]

\* self.color_frequency[color] += 1; self.colors.add(color)
RecordColor(agg, color) ==
    [agg EXCEPT !.color_frequency = CounterInc(@, color), !.colors = @ \cup {color}]

\* the body of "for font in fonts"
ProcessCandidate(agg, cand) ==
    LET font == CleanFont(cand)
    IN  IF PassesGenericFilter(font)
        THEN RecordFont(agg, ResolveFont(agg.css_variables, font))
        ELSE agg

RECURSIVE ProcessCandidates(_, _)
ProcessCandidates(agg, cands) ==
    IF cands = <<>> THEN agg
    ELSE Then(ProcessCandidate(agg, Head(cands)),
              LAMBDA next : ProcessCandidates(next, Tail(cands)))

RECURSIVE ProcessFonts(_, _)
\* "for match in font_matches"
ProcessFonts(agg, matches) ==
    IF matches = <<>> THEN agg
    ELSE Then(ProcessCandidates(agg, Head(matches).cands),
              LAMBDA next : ProcessFonts(next, Tail(matches)))

\* NormalizeHex without match.lower()
NormalizeHexKeepCase(group) ==
    <<"#">> \o (IF Len(group) = 3
                THEN <<group[1], group[1], group[2], group[2], group[3], group[3]>>
                ELSE group)

\* match.lower(), three digits doubled, "#" put in front
NormalizeHex(group) ==
    LET hex_code == Lower(group)
    IN  <<"#">> \o (IF Len(hex_code) = 3
                    THEN <<hex_code[1], hex_code[1], hex_code[2], hex_code[2],
                           hex_code[3], hex_code[3]>>
                    ELSE hex_code)

\* f'#{r:02x}{g:02x}{b:02x}'
RgbToHex(r, g, b) == <<"#">> \o Format02x(r) \o Format02x(g) \o Format02x(b)

RECURSIVE ProcessHexColors(_, _)
\* "for match in color_matches"
ProcessHexColors(agg, lits) ==
    IF lits = <<>> THEN agg
    ELSE IF ColorPatternGroup(Head(lits).run) = <<>>
         THEN ProcessHexColors(agg, Tail(lits))
         ELSE Then(RecordColor(agg, NormalizeHex(ColorPatternGroup(Head(lits).run))),
                   LAMBDA next : ProcessHexColors(next, Tail(lits)))

RECURSIVE ProcessRgbColors(_, _)
\* "for r, g, b in rgb_matches" and "for r, g, b, a in rgba_matches"
ProcessRgbColors(agg, lits) ==
    IF lits = <<>> THEN agg
    ELSE Then(RecordColor(agg, RgbToHex(Head(lits).r, Head(lits).g, Head(lits).b)),
              LAMBDA next : ProcessRgbColors(next, Tail(lits)))

\* the body of the second loop for one source: fonts, then hex, rgb, rgba
AnalyzeSource(agg, text) ==
    Then(ProcessFonts(agg, ItemsOfKind(text, "font")), LAMBDA a1 :
    Then(ProcessHexColors(a1, ItemsOfKind(text, "hex")), LAMBDA a2 :
    Then(ProcessRgbColors(a2, ItemsOfKind(text, "rgb")), LAMBDA a3 :
         ProcessRgbColors(a3, RgbaMatches(text)))))

RECURSIVE AnalyzeSources(_, _)
\* the second loop of analyze_styles, over self.styles.values()
AnalyzeSources(agg, texts) ==
    IF texts = <<>> THEN agg
    ELSE Then(AnalyzeSource(agg, Head(texts)),
              LAMBDA next : AnalyzeSources(next, Tail(texts)))

RECURSIVE AnalyzeStylesOneLoop(_, _)
\* analyze_styles with its two loops merged: the variables of a source are
\* collected just before that source is scanned
AnalyzeStylesOneLoop(agg, texts) ==
    IF texts = <<>> THEN agg
    ELSE Then(AnalyzeSource(
                  [agg EXCEPT !.css_variables =
                                  CollectBlocks(@, ItemsOfKind(Head(texts), "root"))],
                  Head(texts)),
              LAMBDA next : AnalyzeStylesOneLoop(next, Tail(texts)))

\* analyze_styles on the aggregate agg and the texts of self.styles
AnalyzeStyles(agg, texts) ==
    IF texts = <<>> THEN agg
    ELSE Then([agg EXCEPT !.css_variables = CollectVariables(@, texts)],
              LAMBDA collected : AnalyzeSources(collected, texts))

(***************************************************************************)
(* get_top_fonts / get_top_colors / analyze_themes / reports               *)
(***************************************************************************)

\* [x for x, _ in counter.most_common(limit)]
TopKeys(counter, limit) == DictKeys(MostCommon(counter, limit))

\* the limits the code passes to get_top_colors / get_top_fonts
ThemeLimit == 3
PdfPrimaryLimit == 3
PdfSecondaryLimit == 6
JsonLimit == 5

\* ThemeSummary with the limit of the JSON report
ThemeSummaryTopUsed(agg) ==
    [primary_colors |-> TopKeys(agg.color_frequency, JsonLimit),
     fonts |-> TopKeys(agg.font_frequency, JsonLimit),
     color_scheme |-> agg.colors]

\* the dict analyze_themes builds; list(self.colors) is kept as the set
ThemeSummary(agg) ==
    [primary_colors |-> TopKeys(agg.color_frequency, ThemeLimit),
     fonts |-> TopKeys(agg.font_frequency, ThemeLimit),
     color_scheme |-> agg.colors]

\* one row of a color table: the try body gives a swatch row, the except
\* branch the "Error" row
ColorRow(color_frequency, color) ==
    LET hex_code == LStrip(color, {"#"})
        r == IntBase16(Slice(hex_code, 0, 2))
        g == IntBase16(Slice(hex_code, 2, 4))
        b == IntBase16(Slice(hex_code, 4, 6))
        count == DictGet(color_frequency, color, 0)
    IN  IF r < 0 \/ g < 0 \/ b < 0
        THEN [cell |-> "Error", rgb255 |-> <<>>, color |-> color, count |-> count]
        ELSE [cell |-> "swatch", rgb255 |-> <<r, g, b>>, color |-> color, count |-> count]

\* create_color_table(colors): the rows under the header row
create_color_table(color_frequency, colors) ==
    IF colors = <<>>
    THEN <<[cell |-> "No colors detected", rgb255 |-> <<>>, color |-> <<>>, count |-> 0]>>
    ELSE [i \in 1..Len(colors) |-> ColorRow(color_frequency, colors[i])]

\* the tables generate_pdf_report puts in the story
PdfReport(agg) ==
    LET primary_colors == TopKeys(agg.color_frequency, PdfPrimaryLimit)
        top6 == TopKeys(agg.color_frequency, PdfSecondaryLimit)
        secondary_colors == IF Len(top6) > 3 THEN Slice(top6, 3, Len(top6)) ELSE <<>>
        primary_fonts == TopKeys(agg.font_frequency, PdfPrimaryLimit)
    IN  [primary_fonts |-> [i \in 1..Len(primary_fonts) |->
                               [font |-> primary_fonts[i],
                                count |-> DictGet(agg.font_frequency, primary_fonts[i], 0)]],
         primary_colors |-> create_color_table(agg.color_frequency, primary_colors),
         secondary_colors |-> IF secondary_colors # <<>>
                              THEN create_color_table(agg.color_frequency, secondary_colors)
                              ELSE <<>>]

\* the data generate_json_report dumps; list(set) is kept as the set
JsonReport(agg, themes_, styles_) ==
    [fonts |-> [all |-> agg.fonts, top_used |-> TopKeys(agg.font_frequency, JsonLimit)],
     colors |-> [all |-> agg.colors, top_used |-> TopKeys(agg.color_frequency, JsonLimit)],
     themes |-> themes_,
     stylesheets |-> DictKeys(styles_)]

(***************************************************************************)
(* extract_css                                                             *)
(***************************************************************************)

\* a key of self.styles
SourceId(name, index) == [name |-> name, index |-> index]

RECURSIVE PutInline(_, _, _)
\* for i, style in enumerate(inline_styles), from index i on
PutInline(styles_, inline, i) ==
    IF i >= Len(inline) THEN styles_
    ELSE Then(DictPut(styles_, SourceId("inline_style", i), inline[i + 1]),
              LAMBDA next : PutInline(next, inline, i + 1))

\* the body of the external-stylesheet loop for one link: a response of
\* status 200 is stored; another status, or an exception of requests.get
\* (a timeout is one), leaves self.styles as it is
FetchStylesheet(styles_, i, outcome) ==
    IF outcome.kind = "ok"
    THEN DictPut(styles_, SourceId("external_style", i), outcome.text)
    ELSE styles_

RECURSIVE PutExternalAbortOnFailure(_, _, _)
\* PutExternal with the try around the whole loop: the first stylesheet that
\* fails ends the loop
PutExternalAbortOnFailure(styles_, external, i) ==
    IF i >= Len(external) \/ external[i + 1].kind # "ok" THEN styles_
    ELSE Then(FetchStylesheet(styles_, i, external[i + 1]),
              LAMBDA next : PutExternalAbortOnFailure(next, external, i + 1))

RECURSIVE PutExternal(_, _, _)
\* for i, stylesheet_url in enumerate(external_stylesheets), from index i on
PutExternal(styles_, external, i) ==
    IF i >= Len(external) THEN styles_
    ELSE Then(FetchStylesheet(styles_, i, external[i + 1]),
              LAMBDA next : PutExternal(next, external, i + 1))

RECURSIVE Join(_)
\* ' '.join(inline_attrs)
Join(attrs) == IF attrs = <<>> THEN <<>> ELSE Head(attrs) \o Join(Tail(attrs))

\* if inline_attrs: self.styles['inline_attributes'] = ' '.join(inline_attrs)
PutAttributes(styles_, attrs) ==
    IF attrs # <<>> THEN DictPut(styles_, SourceId("inline_attributes", 0), Join(attrs))
    ELSE styles_

\* if computed_css: self.styles['computed_styles'] = ' '.join(computed_css)
PutComputed(styles_, computed) ==
    IF computed # <<>> THEN DictPut(styles_, SourceId("computed_styles", 0), computed)
    ELSE styles_

\* extract_css(page).  p.raises is the page.evaluate call that raises (1: the
\* <style> query, 2: the link query, 3: the [style] query, 4: the computed
\* styles query; 0: none does); the except clause of extract_css logs it and
\* keeps what was stored before
ExtractCss(styles_, p) ==
    LET s1 == IF p.raises = 1 THEN styles_ ELSE PutInline(styles_, p.inline, 0)
        s2 == IF p.raises \in {1, 2} THEN s1 ELSE PutExternal(s1, p.external, 0)
        s3 == IF p.raises \in {1, 2, 3} THEN s2 ELSE PutAttributes(s2, p.attrs)
        s4 == IF p.raises \in {1, 2, 3, 4} THEN s3 ELSE PutComputed(s3, p.computed)
    IN  s4

(***************************************************************************)
(* The pages the runs are checked on                                       *)
(***************************************************************************)

\* the text "var(--name)"
Var(name) == <<"var(", "--", name, ")">>

\* body { color: #FFF; font-family: 'Helvetica Neue', sans-serif; }
StyleBlockA ==
    <<HexLit(<<"F", "F", "F">>),
      FontFamily(<< <<"'", "Helvetica", " ", "Neue", "'">>, <<" ", "sans-serif">> >>)>>

\* :root { --brand : Georgia; --fallback: serif; }
\* h1 { font-family: var(--brand), var(--fallback), var(--accent); color: #1a2b3c; }
StyleBlockB ==
    <<RootBlock(<<VarDecl(<<"brand", " ">>, <<"Georgia">>),
                  VarDecl(<<"fallback">>, <<"serif">>)>>),
      FontFamily(<<Var("brand"), <<" ">> \o Var("fallback"), <<" ">> \o Var("accent")>>),
      HexLit(<<"1", "a", "2", "b", "3", "c">>)>>

\* :root { --brand: Arial; --alias: var(--brand); }
\* p { font-family: var(--brand), SERIF, var(--alias); color: #abcd;
\*     background: rgb(26,43,60) }
\* a { color: rgba(26,43,60,0.5); border-color: #ABCDE; outline-color: #12g }
SheetA ==
    <<RootBlock(<<VarDecl(<<"brand">>, <<"Arial">>),
                  VarDecl(<<"alias">>, Var("brand"))>>),
      FontFamily(<<Var("brand"), <<" ", "SERIF">>, <<" ">> \o Var("alias")>>),
      HexLit(<<"a", "b", "c", "d">>),
      RgbLit(26, 43, 60),
      RgbaLit(26, 43, 60, <<"0", ".", "5">>),
      HexLit(<<"A", "B", "C", "D", "E">>),
      HexLit(<<"1", "2", "g">>)>>

\* :root { --accent: Verdana; }
\* h2 { font-family: "Georgia", Arial, monospace; color: rgb(300, 0, 0);
\*      background: #fff; border-color: #1A2B3C4 }
SheetB ==
    <<RootBlock(<<VarDecl(<<"accent">>, <<"Verdana">>)>>),
      FontFamily(<< <<"\"", "Georgia", "\"">>, <<" ", "Arial">>, <<" ", "monospace">> >>),
      RgbLit(300, 0, 0),
      HexLit(<<"f", "f", "f">>),
      HexLit(<<"1", "A", "2", "B", "3", "C", "4">>)>>

\* :root { --brand: Verdana; --brand : Georgia; }
\* :root { --accent: Arial; --accent: Verdana; --fallback: Arial; }
\* h3 { font-family: var(--brand), var(--accent), var(--fallback); }
SheetC ==
    <<RootBlock(<<VarDecl(<<"brand">>, <<"Verdana">>),
                  VarDecl(<<"brand", " ">>, <<"Georgia">>)>>),
      RootBlock(<<VarDecl(<<"accent">>, <<"Arial">>),
                  VarDecl(<<"accent">>, <<"Verdana">>),
                  VarDecl(<<"fallback">>, <<"Arial">>)>>),
      FontFamily(<<Var("brand"), <<" ">> \o Var("accent"), <<" ">> \o Var("fallback")>>)>>

\* style="color: #FFFFFF;" and style="font-family: Arial;"
AttrA == <<HexLit(<<"F", "F", "F", "F", "F", "F">>)>>
AttrB == <<FontFamily(<< <<"Arial">> >>)>>

\* #body_0 { color: rgb(0, 0, 0); background-color: rgba(0, 0, 0, 0);
\*           font-family: "Helvetica Neue", Arial, sans-serif; }
ComputedA ==
    <<RgbLit(0, 0, 0), RgbaLit(0, 0, 0, <<"0">>),
      FontFamily(<< <<"\"", "Helvetica", " ", "Neue", "\"">>, <<" ", "Arial">>,
                    <<" ", "sans-serif">> >>)>>

\* the computed styles of the body of a page whose only CSS is StyleBlockA:
\* #body_0 { color: rgb(255, 255, 255); background-color: rgba(0, 0, 0, 0);
\*           font-family: "Helvetica Neue", sans-serif; font-size: 16px;
\*           font-weight: 400; border-color: rgb(255, 255, 255);
\*           border-radius: 0px; }
ComputedOfA ==
    <<RgbLit(255, 255, 255), RgbaLit(0, 0, 0, <<"0">>),
      FontFamily(<< <<"\"", "Helvetica", " ", "Neue", "\"">>, <<" ", "sans-serif">> >>),
      RgbLit(255, 255, 255)>>

\* what requests.get(stylesheet_url, timeout=10) can give
Fetched(text) == [kind |-> "ok", text |-> text]
NotOk == [kind |-> "status", text |-> <<>>]
Raised == [kind |-> "error", text |-> <<>>]

\* the largest number of <link rel="stylesheet"> elements of a page
MaxExternal == 3

SeqsUpTo(S, n) == UNION {[1..m -> S] : m \in 0..n}

\* the documents served: their <style> blocks, style="..." attributes and the
\* computed styles of their elements.  fetch_page has waited for the body, so
\* the computed styles query finds at least that element, and an element
\* always has a computed color: computed is never empty
Documents ==
    {[inline |-> <<>>, attrs |-> <<>>, computed |-> ComputedA],
     [inline |-> <<StyleBlockA>>, attrs |-> <<>>, computed |-> ComputedOfA],
     [inline |-> <<StyleBlockB>>, attrs |-> <<>>, computed |-> ComputedA],
     [inline |-> <<StyleBlockA, StyleBlockB>>, attrs |-> <<AttrA, AttrB>>,
      computed |-> ComputedA]}

\* a document with its linked stylesheets, each with the outcome of its
\* fetch, and the page.evaluate call of extract_css that raises (0: none)
PageOf(doc, external, raises) ==
    [inline |-> doc.inline, external |-> external, attrs |-> doc.attrs,
     computed |-> doc.computed, raises |-> raises]

\* pages with inline blocks, inline attributes, computed styles and external
\* stylesheets that may fail
Pages ==
    {PageOf(doc, external, raises) :
        doc \in Documents,
        external \in SeqsUpTo({Fetched(SheetA), NotOk, Raised}, MaxExternal),
        raises \in 0..4}

\* pages whose only sources are external stylesheets, all fetched, in every
\* order: no <style> block, no style attribute, and the computed styles
\* query raises
SheetPages ==
    {PageOf([inline |-> <<>>, attrs |-> <<>>, computed |-> ComputedA], external, 4) :
        external \in SeqsUpTo({Fetched(StyleBlockA), Fetched(StyleBlockB),
                               Fetched(SheetA), Fetched(SheetB)}, MaxExternal)}

\* the values an rgb component takes on the pages of ColorPages
Components == {0, 15, 26, 255}

\* alpha values as CSS writes them: numbers, and a percentage
Alphas == {<<"0">>, <<"0", ".", "5">>, <<".", "5">>, <<"1">>, <<"5", "0", "%">>}

\* the two hexadecimal digits of a component in 0..255
TwoHex(n) == <<HexDigitOf[(n \div 16) + 1], HexDigitOf[(n % 16) + 1]>>

\* the 6-digit hex literal equivalent to rgb(r, g, b)
HexOf(r, g, b) == HexLit(TwoHex(r) \o TwoHex(g) \o TwoHex(b))

\* the three ways a style text writes the color of components r, g, b
LiteralsOf(r, g, b) ==
    {RgbLit(r, g, b), HexOf(r, g, b)} \cup {RgbaLit(r, g, b, a) : a \in Alphas}

\* pages whose only source is one <style> block of one or two literals of
\* one color; the computed styles query raises
ColorPages ==
    {PageOf([inline |-> <<block>>, attrs |-> <<>>, computed |-> ComputedA],
            <<>>, 4) :
        block \in UNION {SeqsUpTo(LiteralsOf(c[1], c[2], c[3]), 2) \ {<<>>} :
                            c \in Components \X Components \X Components}}

\* pages like those of SheetPages, of stylesheets that declare the same
\* variables, one of them more than once
VarPages ==
    {PageOf([inline |-> <<>>, attrs |-> <<>>, computed |-> ComputedA], external, 4) :
        external \in SeqsUpTo({Fetched(StyleBlockB), Fetched(SheetA), Fetched(SheetB),
                               Fetched(SheetC)}, MaxExternal)}

\* 3-digit and 6-digit hex literals, in lower, upper and mixed case
Hex3 == {HexLit(run) : run \in [1..3 -> {"0", "a", "F"}]}
Hex6 == {HexLit(run) : run \in [1..6 -> {"a", "F"}]}

\* pages whose only source is one <style> block of one or two such literals;
\* the computed styles query raises
HexPages ==
    {PageOf([inline |-> <<block>>, attrs |-> <<>>, computed |-> ComputedA],
            <<>>, 4) :
        block \in SeqsUpTo(Hex3 \cup Hex6, 2) \ {<<>>}}

(***************************************************************************)
(* State                                                                   *)
(***************************************************************************)

VARIABLES
    args_url,           \* whether --url was given
    page,               \* what the browser and the network serve for the URL
    pc,                 \* where the run is
    current_retry,      \* fetch_page's counter
    styles,             \* self.styles
    css_variables,      \* self.css_variables
    fonts,              \* self.fonts
    colors,             \* self.colors
    font_frequency,     \* self.font_frequency
    color_frequency,    \* self.color_frequency
    themes,             \* self.themes: <<>> while {}, else <<the dict>>
    pdf_report,         \* <<>>, or <<the tables of the PDF file written>>
    json_report,        \* <<>>, or <<the data of the JSON file written>>
    result,             \* what extract_branding returned
    message,            \* the last line printed by main / __main__
    exit_code           \* the exit status: -1 while the process runs

vars == <<args_url, page, pc, current_retry, styles, css_variables, fonts, colors,
          font_frequency, color_frequency, themes, pdf_report, json_report,
          result, message, exit_code>>

\* max_retries of fetch_page
max_retries == 2

\* the aggregate held by the extractor
Aggregate ==
    [css_variables |-> css_variables, fonts |-> fonts, colors |-> colors,
     font_frequency |-> font_frequency, color_frequency |-> color_frequency]

\* BrandExtractor.__init__, before main reads the arguments
InitOn(pages) ==
    /\ args_url \in BOOLEAN
    /\ page \in pages
    /\ pc = "main"
    /\ current_retry = 0
    /\ styles = <<>>
    /\ css_variables = <<>>
    /\ fonts = {}
    /\ colors = {}
    /\ font_frequency = <<>>
    /\ color_frequency = <<>>
    /\ themes = <<>>
    /\ pdf_report = <<>>
    /\ json_report = <<>>
    /\ result = "running"
    /\ message = ""
    /\ exit_code = -1

Init == InitOn(Pages)

InitSheets == InitOn(SheetPages)

InitColors == InitOn(ColorPages)

InitHex == InitOn(HexPages)

InitVars == InitOn(VarPages)

extractor_vars == <<styles, css_variables, fonts, colors, font_frequency,
                    color_frequency, themes>>
analysis_vars == <<css_variables, fonts, colors, font_frequency, color_frequency>>
report_vars == <<pdf_report, json_report>>

(***************************************************************************)
(* main                                                                    *)
(***************************************************************************)

\* main: "if not url: print(...); sys.exit(1)".  SystemExit is no Exception:
\* it passes the handlers of __main__ and ends the process with status 1
MissingUrl ==
    /\ pc = "main"
    /\ ~args_url
    /\ message' = "Error: URL is required"
    /\ exit_code' = 1
    /\ pc' = "exited"
    /\ UNCHANGED <<args_url, page, current_retry, extractor_vars, report_vars, result>>

\* main: the extractor is built and extract_branding awaits fetch_page
StartExtraction ==
    /\ pc = "main"
    /\ args_url
    /\ message' = "Analyzing website"
    /\ current_retry' = 0
    /\ pc' = "fetch_page"
    /\ UNCHANGED <<args_url, page, extractor_vars, report_vars, result, exit_code>>

(***************************************************************************)
(* fetch_page: one action per attempt and outcome                          *)
(***************************************************************************)

\* AttemptFailed giving up one attempt early
AttemptFailedEarly ==
    IF current_retry >= max_retries - 1
    THEN /\ current_retry' = 0
         /\ pc' = "fetch_failed"
    ELSE /\ current_retry' = current_retry + 1
         /\ pc' = "sleep"

\* the except clauses of fetch_page: the last attempt returns False, an
\* earlier one counts and goes to sleep
AttemptFailed ==
    IF current_retry = max_retries
    THEN /\ current_retry' = 0
         /\ pc' = "fetch_failed"
    ELSE /\ current_retry' = current_retry + 1
         /\ pc' = "sleep"

\* the browser cannot be launched, or the context or the page cannot be
\* created: the outer except clause
FetchLaunchError ==
    /\ pc = "fetch_page"
    /\ AttemptFailed
    /\ UNCHANGED <<args_url, page, extractor_vars, report_vars, result, message,
                   exit_code>>

\* goto raises or times out, there is no response, the status is not OK, the
\* body selector times out or the content is empty: the inner except clause
FetchPageError ==
    /\ pc = "fetch_page"
    /\ AttemptFailed
    /\ UNCHANGED <<args_url, page, extractor_vars, report_vars, result, message,
                   exit_code>>

\* extract_css and _extract_logo have run and browser.close() raises: the
\* inner except clause, with self.styles already filled
FetchCloseError ==
    /\ pc = "fetch_page"
    /\ styles' = ExtractCss(styles, page)
    /\ AttemptFailed
    /\ UNCHANGED <<args_url, page, analysis_vars, themes, report_vars, result,
                   message, exit_code>>

\* the attempt succeeds: fetch_page returns True
FetchSuccess ==
    /\ pc = "fetch_page"
    /\ styles' = ExtractCss(styles, page)
    /\ current_retry' = 0
    /\ pc' = "extract_fonts"
    /\ UNCHANGED <<args_url, page, analysis_vars, themes, report_vars, result,
                   message, exit_code>>

\* "await asyncio.sleep(2); continue": the next attempt starts
Sleep ==
    /\ pc = "sleep"
    /\ pc' = "fetch_page"
    /\ UNCHANGED <<args_url, page, current_retry, extractor_vars, report_vars,
                   result, message, exit_code>>

\* one attempt of fetch_page, with any outcome
Attempt == FetchLaunchError \/ FetchPageError \/ FetchCloseError \/ FetchSuccess

(***************************************************************************)
(* extract_branding after the fetch                                        *)
(***************************************************************************)

\* FetchFailed with the value of fetch_page ignored: the run goes on
FetchFailedIgnored ==
    /\ pc = "fetch_failed"
    /\ pc' = "extract_fonts"
    /\ UNCHANGED <<args_url, page, current_retry, extractor_vars, report_vars,
                   result, message, exit_code>>

\* "if not await self.fetch_page(): ... return None"
FetchFailed ==
    /\ pc = "fetch_failed"
    /\ result' = "None"
    /\ pc' = "returned"
    /\ UNCHANGED <<args_url, page, current_retry, extractor_vars, report_vars,
                   message, exit_code>>

\* analyze_styles applied to the extractor's state
RunAnalyzeStyles ==
    LET agg == AnalyzeStyles(Aggregate, DictValues(styles))
    IN  /\ css_variables' = agg.css_variables
        /\ fonts' = agg.fonts
        /\ colors' = agg.colors
        /\ font_frequency' = agg.font_frequency
        /\ color_frequency' = agg.color_frequency

\* extract_fonts(): self.analyze_styles()
extract_fonts ==
    /\ pc = "extract_fonts"
    /\ RunAnalyzeStyles
    /\ pc' = "extract_colors"
    /\ UNCHANGED <<args_url, page, current_retry, styles, themes, report_vars,
                   result, message, exit_code>>

\* extract_colors(): self.analyze_styles()
extract_colors ==
    /\ pc = "extract_colors"
    /\ RunAnalyzeStyles
    /\ pc' = "analyze_themes"
    /\ UNCHANGED <<args_url, page, current_retry, styles, themes, report_vars,
                   result, message, exit_code>>

analyze_themes ==
    /\ pc = "analyze_themes"
    /\ themes' = <<ThemeSummary(Aggregate)>>
    /\ pc' = "generate_pdf_report"
    /\ UNCHANGED <<args_url, page, current_retry, styles, analysis_vars, report_vars,
                   result, message, exit_code>>

generate_pdf_report ==
    /\ pc = "generate_pdf_report"
    /\ pdf_report' = <<PdfReport(Aggregate)>>
    /\ pc' = "generate_json_report"
    /\ UNCHANGED <<args_url, page, current_retry, extractor_vars, json_report,
                   result, message, exit_code>>

\* os.makedirs or doc.build raises: extract_branding returns None
PdfReportError ==
    /\ pc = "generate_pdf_report"
    /\ result' = "None"
    /\ pc' = "returned"
    /\ UNCHANGED <<args_url, page, current_retry, extractor_vars, report_vars,
                   message, exit_code>>

\* the JSON file is written and extract_branding returns the two paths
generate_json_report ==
    /\ pc = "generate_json_report"
    /\ json_report' = <<JsonReport(Aggregate, themes, styles)>>
    /\ result' = "reports"
    /\ pc' = "returned"
    /\ UNCHANGED <<args_url, page, current_retry, extractor_vars, pdf_report,
                   message, exit_code>>

\* open or json.dump raises: extract_branding returns None
JsonReportError ==
    /\ pc = "generate_json_report"
    /\ result' = "None"
    /\ pc' = "returned"
    /\ UNCHANGED <<args_url, page, current_retry, extractor_vars, report_vars,
                   message, exit_code>>

(***************************************************************************)
(* main after extract_branding, and the __main__ block                     *)
(***************************************************************************)

\* "if result: ... else: print('Failed ...')": main returns either way, and
\* the process ends with status 0
MainReturns ==
    /\ pc = "returned"
    /\ message' = IF result = "reports" THEN "Reports generated:"
                  ELSE "Failed to analyze the website."
    /\ exit_code' = 0
    /\ pc' = "exited"
    /\ UNCHANGED <<args_url, page, current_retry, extractor_vars, report_vars, result>>

\* except KeyboardInterrupt: sys.exit(0)
KeyboardInterrupt ==
    /\ pc # "exited"
    /\ message' = "Operation cancelled by user."
    /\ exit_code' = 0
    /\ pc' = "exited"
    /\ UNCHANGED <<args_url, page, current_retry, extractor_vars, report_vars, result>>

\* except Exception: sys.exit(1).  extract_branding catches its own
\* exceptions; what reaches this handler is raised by main itself (its
\* print calls)
UnhandledException ==
    /\ pc \in {"main", "returned"}
    /\ message' = "An error occurred"
    /\ exit_code' = 1
    /\ pc' = "exited"
    /\ UNCHANGED <<args_url, page, current_retry, extractor_vars, report_vars, result>>

Next ==
    \/ MissingUrl
    \/ StartExtraction
    \/ FetchLaunchError
    \/ FetchPageError
    \/ FetchCloseError
    \/ FetchSuccess
    \/ Sleep
    \/ FetchFailed
    \/ extract_fonts
    \/ extract_colors
    \/ analyze_themes
    \/ generate_pdf_report
    \/ PdfReportError
    \/ generate_json_report
    \/ JsonReportError
    \/ MainReturns
    \/ KeyboardInterrupt
    \/ UnhandledException

Spec == Init /\ [][Next]_vars

\* the same program on the pages of SheetPages
SpecSheets == InitSheets /\ [][Next]_vars

\* analyze_themes called on the extractor at any time of its life, any number
\* of times
analyze_themes_call ==
    /\ pc \notin {"main", "exited"}
    /\ themes' = <<ThemeSummary(Aggregate)>>
    /\ UNCHANGED <<args_url, page, pc, current_retry, styles, analysis_vars,
                   report_vars, result, message, exit_code>>

\* the same program on the pages of ColorPages
SpecColors == InitColors /\ [][Next]_vars

\* the same program on the pages of HexPages
SpecHex == InitHex /\ [][Next]_vars

\* the same program on the pages of VarPages
SpecVars == InitVars /\ [][Next]_vars

\* the program with its fetch scheduled: every call an attempt awaits returns
\* or raises (goto, wait_for_selector and requests.get carry timeouts), and
\* asyncio.sleep(2) returns
SpecFetch == Init /\ [][Next]_vars /\ WF_vars(Attempt) /\ WF_vars(Sleep)

\* the program, with analyze_themes also called from outside extract_branding
SpecThemes == Init /\ [][Next \/ analyze_themes_call]_vars

(***************************************************************************)
(* Notions the properties below are stated with                            *)
(***************************************************************************)

\* the texts of the collected sources, in collection order
SourceTexts == DictValues(styles)

\* the places <<source, item, candidate>> of the candidates of the
\* font-family matches of a list of texts
CandidatePlaces(texts) ==
    UNION {UNION {{<<s, i, j>> : j \in 1..Len(texts[s][i].cands)} :
                  i \in 1..Len(texts[s])} : s \in 1..Len(texts)}

\* the candidate at a place, as analyze_styles cleans it
CandidateAt(texts, m) == CleanFont(texts[m[1]][m[2]].cands[m[3]])

\* the places <<source, item>> where color_pattern, rgb_pattern or
\* rgba_pattern matches
ColorPlaces(texts) ==
    UNION {{<<s, i>> : i \in {n \in 1..Len(texts[s]) :
                \/ texts[s][n].k = "rgb"
                \/ texts[s][n].k = "rgba" /\ MatchesAlpha(texts[s][n].a)
                \/ /\ texts[s][n].k = "hex"
                   /\ ColorPatternGroup(texts[s][n].run) # <<>>}} :
           s \in 1..Len(texts)}

\* the token the match at a color place is recorded under
ColorAt(texts, m) ==
    LET item == texts[m[1]][m[2]]
    IN  IF item.k = "hex" THEN NormalizeHex(ColorPatternGroup(item.run))
        ELSE RgbToHex(item.r, item.g, item.b)

\* the number of font candidates, and of color matches, recorded under t
FontMatchCount(t) ==
    Cardinality({m \in CandidatePlaces(SourceTexts) :
                    /\ PassesGenericFilter(CandidateAt(SourceTexts, m))
                    /\ ResolveFont(css_variables, CandidateAt(SourceTexts, m)) = t})

ColorMatchCount(t) ==
    Cardinality({m \in ColorPlaces(SourceTexts) : ColorAt(SourceTexts, m) = t})

\* extract_branding ran to its end and returned the two report paths
RunComplete == pc = "returned" /\ result = "reports"

LowerHexDigits == {HexDigitOf[i] : i \in 1..16}

\* a ColorToken: "#" and exactly six lowercase hexadecimal digits
IsColorToken(c) ==
    /\ Len(c) = 7
    /\ c[1] = "#"
    /\ \A i \in 2..7 : c[i] \in LowerHexDigits

(***************************************************************************)
(* C1: after a complete extract_branding run, the count of every font      *)
(* token and of every color token is the number of regex matches recorded  *)
(* under it: a token matched k times has count k.                          *)
(* The code runs analyze_styles twice (extract_fonts, extract_colors) on   *)
(* the same Counters, so every count is 2k: TLC finds this violated.       *)
(***************************************************************************)
C1_CountEqualsMatches ==
    RunComplete =>
        /\ \A t \in fonts : DictGet(font_frequency, t, 0) = FontMatchCount(t)
        /\ \A t \in colors : DictGet(color_frequency, t, 0) = ColorMatchCount(t)

(***************************************************************************)
(* C2: in every reachable state every member of the full color set and     *)
(* every key of the color frequency table is a ColorToken, "#" and exactly *)
(* six lowercase hexadecimal digits.                                       *)
(* color_pattern also matches four and five digits, and an rgb component   *)
(* above 255 formats to three digits: TLC finds this violated.             *)
(***************************************************************************)
C2_ColorsAreColorTokens ==
    \A c \in colors \cup KeySet(color_frequency) : IsColorToken(c)

(***************************************************************************)
(* C3: in every reachable state no token of the full font set or of the    *)
(* font frequency table equals, case-insensitively, a generic keyword,     *)
(* whether written literally or obtained by var() substitution.            *)
(* The code filters before it substitutes, so a variable declared as a     *)
(* generic keyword is counted: TLC finds this violated.                    *)
(***************************************************************************)
C3_NoGenericFontToken ==
    \A t \in fonts \cup KeySet(font_frequency) : Lower(t) \notin GenericKeywords

\* analyze_styles has run on the collected sources at least once
Analysed ==
    \/ pc \in {"extract_colors", "analyze_themes", "generate_pdf_report",
               "generate_json_report"}
    \/ pc = "returned" /\ themes # <<>>

\* the cleaned font-family candidates of the collected sources that begin
\* with "var("
VarCandidates ==
    {c \in {CandidateAt(SourceTexts, m) : m \in CandidatePlaces(SourceTexts)} :
        StartsWithVar(c)}

\* the token a candidate is to be counted under: the declared value of a
\* defined "var(" candidate, the candidate's own text otherwise
ExpectedFontToken(c) ==
    IF StartsWithVar(c) /\ c \in KeySet(css_variables)
    THEN css_variables[CHOOSE i \in 1..Len(css_variables) : css_variables[i].k = c].v
    ELSE c

\* the number of places where the cleaned candidate is c
CandidateCount(c) ==
    Cardinality({m \in CandidatePlaces(SourceTexts) : CandidateAt(SourceTexts, m) = c})

(***************************************************************************)
(* C4: every font-family candidate that begins with "var(" is counted      *)
(* under its declared value when css_variables defines it, and then not    *)
(* under its own var(...) text (that text is a font token only when some   *)
(* other candidate stands for it); when css_variables does not define it,  *)
(* the literal var(...) text is counted and is in the font set.            *)
(***************************************************************************)
C4_VarResolution ==
    Analysed =>
        \A c \in VarCandidates :
            /\ ExpectedFontToken(c) \in fonts
            /\ DictGet(font_frequency, ExpectedFontToken(c), 0) >= CandidateCount(c)
            /\ (c \in KeySet(css_variables) /\ c \in fonts) =>
                   \E m \in CandidatePlaces(SourceTexts) :
                       /\ CandidateAt(SourceTexts, m) # c
                       /\ ExpectedFontToken(CandidateAt(SourceTexts, m)) = c

\* a run where one var(...) candidate is defined and counted under its value
\* only, and another is undefined and counted literally
C4_Witness ==
    /\ Analysed
    /\ \E c \in VarCandidates :
           /\ c \in KeySet(css_variables)
           /\ c \notin fonts
           /\ ExpectedFontToken(c) \in fonts
    /\ \E c \in VarCandidates : c \notin KeySet(css_variables) /\ c \in fonts

\* get_top_fonts(limit) and get_top_colors(limit) on the extractor's state
get_top_fonts(limit) == TopKeys(font_frequency, limit)
get_top_colors(limit) == TopKeys(color_frequency, limit)

\* the largest n the top-N properties are checked for
MaxLimit == 6

\* the place of a token in the order of first recording
FirstRecorded(counter, t) == CHOOSE i \in 1..Len(counter) : counter[i].k = t

\* top is a correct answer to "the n highest-count tokens of counter, ties
\* broken by first-recorded order"
IsTopN(counter, n, top) ==
    LET count(t) == DictGet(counter, t, 0)
        returned == {top[i] : i \in 1..Len(top)}
        omitted == KeySet(counter) \ returned
    IN  /\ Len(top) = Min(n, Cardinality(KeySet(counter)))
        /\ returned \subseteq KeySet(counter)
        /\ \A i, j \in 1..Len(top) :
               i < j => /\ top[i] # top[j]
                        /\ count(top[i]) >= count(top[j])
                        /\ count(top[i]) = count(top[j]) =>
                               FirstRecorded(counter, top[i]) < FirstRecorded(counter, top[j])
        /\ \A t \in omitted : \A i \in 1..Len(top) :
               /\ count(t) <= count(top[i])
               /\ count(t) = count(top[i]) =>
                      FirstRecorded(counter, top[i]) < FirstRecorded(counter, t)

(***************************************************************************)
(* C5: in every state and for every n >= 0, get_top_fonts(n) and           *)
(* get_top_colors(n) return min(n, number of distinct tokens) distinct     *)
(* tokens in non-increasing count order, no omitted token has a higher     *)
(* count than a returned one, and among tokens of equal count the one      *)
(* first recorded earlier ranks higher.                                    *)
(***************************************************************************)
C5_TopN ==
    \A n \in 0..MaxLimit :
        /\ IsTopN(font_frequency, n, get_top_fonts(n))
        /\ IsTopN(color_frequency, n, get_top_colors(n))

\* a state where a top-N list cuts through a tie and is not the first n
\* tokens in recording order
C5_Witness ==
    \E n \in 1..MaxLimit :
        /\ Len(color_frequency) > n
        /\ get_top_colors(n) # SubSeq(DictKeys(color_frequency), 1, n)
        /\ \E t \in KeySet(color_frequency) :
               /\ \A i \in 1..n : get_top_colors(n)[i] # t
               /\ DictGet(color_frequency, t, 0)
                      = DictGet(color_frequency, get_top_colors(n)[n], 0)
        /\ Len(font_frequency) > 2
        /\ get_top_fonts(2) = SubSeq(DictKeys(font_frequency), 1, 2)
        /\ DictGet(font_frequency, get_top_fonts(2)[1], 0)
               = DictGet(font_frequency, DictKeys(font_frequency)[3], 0)

\* the orderings of the collected sources
Orderings ==
    {p \in [1..Len(SourceTexts) -> 1..Len(SourceTexts)] :
        \A i, j \in 1..Len(SourceTexts) : i # j => p[i] # p[j]}

Reordered(p) == [i \in 1..Len(SourceTexts) |-> SourceTexts[p[i]]]

\* what analyze_styles yields on a fresh extractor for the ordering p
OnOrdering(p) == AnalyzeStyles(EmptyAggregate, Reordered(p))

\* a dict or Counter as a mapping, its order put aside
Entries(d) == {d[i] : i \in 1..Len(d)}

\* the counts of the tokens of a top-N list
CountsOf(counter, top) == [i \in 1..Len(top) |-> DictGet(counter, top[i], 0)]

\* the first analyze_styles pass has just run on the collected sources
FirstPassDone == pc = "extract_colors"

(***************************************************************************)
(* C6 as claimed: for any two orderings of the same collection of style    *)
(* sources, analyze_styles yields the same font set, color set, per-token  *)
(* counts, top-N font and color lists and theme summary.                   *)
(* A variable declared with different values in two sources resolves to    *)
(* the later one, and ties of a top-N list follow the order of first       *)
(* recording: TLC finds this violated.                                     *)
(***************************************************************************)
C6_OrderIndependent ==
    FirstPassDone =>
        \A p \in Orderings :
            LET o == OnOrdering(p)
            IN  /\ o.fonts = fonts
                /\ o.colors = colors
                /\ Entries(o.font_frequency) = Entries(font_frequency)
                /\ Entries(o.color_frequency) = Entries(color_frequency)
                /\ \A n \in 0..MaxLimit :
                       /\ TopKeys(o.font_frequency, n) = get_top_fonts(n)
                       /\ TopKeys(o.color_frequency, n) = get_top_colors(n)
                /\ ThemeSummary(o) = ThemeSummary(Aggregate)

(***************************************************************************)
(* C6 as amended: for any two orderings of the same collection of style    *)
(* sources, analyze_styles yields the same color set and per-color counts, *)
(* and top-N color lists with the same counts position by position; when   *)
(* the two orderings build the same css_variables mapping it also yields   *)
(* the same font set and per-font counts, and top-N font lists with the    *)
(* same counts position by position.  Tokens of equal count may come in a  *)
(* different order in the top-N lists and in the theme summary.            *)
(***************************************************************************)
C6_OrderIndependentCounts ==
    FirstPassDone =>
        \A p \in Orderings :
            LET o == OnOrdering(p)
            IN  /\ o.colors = colors
                /\ Entries(o.color_frequency) = Entries(color_frequency)
                /\ ThemeSummary(o).color_scheme = ThemeSummary(Aggregate).color_scheme
                /\ \A n \in 0..MaxLimit :
                       CountsOf(o.color_frequency, TopKeys(o.color_frequency, n))
                           = CountsOf(color_frequency, get_top_colors(n))
                /\ Entries(o.css_variables) = Entries(css_variables) =>
                       /\ o.fonts = fonts
                       /\ Entries(o.font_frequency) = Entries(font_frequency)
                       /\ \A n \in 0..MaxLimit :
                              CountsOf(o.font_frequency, TopKeys(o.font_frequency, n))
                                  = CountsOf(font_frequency, get_top_fonts(n))

\* two different orderings of sources, one of which uses a variable that a
\* later one declares, that agree on the variables and differ in the order of
\* a top-N list
C6_Witness ==
    /\ FirstPassDone
    /\ \E p \in Orderings :
           /\ Reordered(p) # SourceTexts
           /\ Entries(OnOrdering(p).css_variables) = Entries(css_variables)
           /\ TopKeys(OnOrdering(p).color_frequency, ThemeLimit) # get_top_colors(ThemeLimit)
           /\ \E c \in VarCandidates :
                  /\ c \in KeySet(css_variables)
                  /\ c \notin KeySet(CollectVariables(<<>>, <<SourceTexts[1]>>))
                  /\ \E m \in CandidatePlaces(SourceTexts) :
                         m[1] = 1 /\ CandidateAt(SourceTexts, m) = c

\* fetch_page has returned True
Collected ==
    \/ pc \in {"extract_fonts", "extract_colors", "analyze_themes",
               "generate_pdf_report", "generate_json_report"}
    \/ pc = "returned" /\ themes # <<>>

\* the linked stylesheets whose fetch failed (an exception or a timeout of
\* requests.get, or a status other than 200), and those that were fetched
FailedSheets == {i \in 1..Len(page.external) : page.external[i].kind # "ok"}
FetchedSheets == {i \in 1..Len(page.external) : page.external[i].kind = "ok"}

\* the source id is in self.styles with the text
Holds(id, text) == DictHas(styles, id) /\ DictGet(styles, id, <<>>) = text

(***************************************************************************)
(* C7: when the fetch of an external stylesheet fails (exception, timeout  *)
(* or non-200 status) collection goes on: every stylesheet that is fetched *)
(* and the inline, inline-attribute and computed-style sources are in the  *)
(* source mapping (as far as the page queries of extract_css themselves    *)
(* succeed), and after analysis every match in them is in the font or      *)
(* color set.                                                              *)
(***************************************************************************)
C7_IsolatedFetchFailure ==
    (Collected /\ FailedSheets # {}) =>
        /\ page.raises \notin {1, 2} =>
               \A i \in FetchedSheets :
                   Holds(SourceId("external_style", i - 1), page.external[i].text)
        /\ page.raises # 1 =>
               \A i \in 1..Len(page.inline) :
                   Holds(SourceId("inline_style", i - 1), page.inline[i])
        /\ (page.raises \notin {1, 2, 3} /\ page.attrs # <<>>) =>
               Holds(SourceId("inline_attributes", 0), Join(page.attrs))
        /\ (page.raises = 0 /\ page.computed # <<>>) =>
               Holds(SourceId("computed_styles", 0), page.computed)
        /\ Analysed =>
               /\ \A m \in ColorPlaces(SourceTexts) : ColorAt(SourceTexts, m) \in colors
               /\ \A m \in CandidatePlaces(SourceTexts) :
                      PassesGenericFilter(CandidateAt(SourceTexts, m)) =>
                          ResolveFont(css_variables, CandidateAt(SourceTexts, m)) \in fonts

\* a complete run on a page with three linked stylesheets of which the first
\* fails: the other two, the inline blocks, the attributes and the computed
\* styles are listed in the JSON report and their colors are in the color set
C7_Witness ==
    /\ RunComplete
    /\ Len(page.external) = 3
    /\ FailedSheets = {1}
    /\ page.inline # <<>> /\ page.attrs # <<>> /\ page.computed # <<>>
    /\ Len(json_report[1].stylesheets) = Len(page.inline) + 4
    /\ \A i \in {2, 3} :
           /\ Holds(SourceId("external_style", i - 1), page.external[i].text)
           /\ \A m \in ColorPlaces(<<page.external[i].text>>) :
                  ColorAt(<<page.external[i].text>>, m) \in colors

\* nothing has been analysed and no report has been written
NothingProduced ==
    /\ fonts = {} /\ colors = {}
    /\ font_frequency = <<>> /\ color_frequency = <<>>
    /\ css_variables = <<>> /\ themes = <<>>
    /\ pdf_report = <<>> /\ json_report = <<>>

(***************************************************************************)
(* C8: when the page fetch has failed on every attempt, extract_branding   *)
(* returns None, and no style analysis, PDF report or JSON report is       *)
(* produced: nothing was produced while fetching, the step after the       *)
(* failed fetch is the return of None (or the end of the process), and     *)
(* once None is returned the analysis and the reports never change.        *)
(***************************************************************************)
C8_FetchFailureNoReport ==
    [][/\ pc \in {"fetch_page", "sleep", "fetch_failed"} => NothingProduced /\ NothingProduced'
       /\ pc = "fetch_failed" =>
              /\ pc' \in {"returned", "exited"}
              /\ pc' = "returned" => result' = "None"
       /\ result = "None" =>
              UNCHANGED <<analysis_vars, themes, report_vars, result>>]_vars

\* extract_branding has returned None after three failed attempts, one of
\* which had filled self.styles, and nothing was analysed or written
C8_Witness ==
    /\ pc = "returned"
    /\ result = "None"
    /\ styles # <<>>
    /\ NothingProduced

\* a color token that is no '#' and six hex digits: after the '#' it has a
\* wrong length or a character that is no hex digit
MalformedHex(color) ==
    LET hex_code == LStrip(color, {"#"})
    IN  \/ Len(hex_code) # 6
        \/ \E i \in 1..Len(hex_code) : HexValue(hex_code[i]) < 0

\* the rows of a color table of the PDF report are one per color of the
\* list, in its order, each with the color's count, and the row of a
\* malformed token is the error placeholder row
TableAsClaimed(table, listed) ==
    /\ Len(table) = Len(listed)
    /\ \A i \in 1..Len(listed) :
           /\ table[i].color = listed[i]
           /\ table[i].count = DictGet(color_frequency, listed[i], 0)
           /\ MalformedHex(listed[i]) => table[i].cell = "Error"

\* the colors generate_pdf_report lists as primary and as secondary
PrimaryColors == get_top_colors(PdfPrimaryLimit)
SecondaryColors ==
    IF Len(get_top_colors(PdfSecondaryLimit)) > 3
    THEN Slice(get_top_colors(PdfSecondaryLimit), 3, Len(get_top_colors(PdfSecondaryLimit)))
    ELSE <<>>

(***************************************************************************)
(* C9: in the color tables of a written PDF report every listed color has  *)
(* its row, with its count, and the row of every malformed hex token       *)
(* (wrong length, or a non-hex digit) is the error placeholder row         *)
(* ("Error", token, count) instead of a swatch row.                        *)
(***************************************************************************)
C9_MalformedHexErrorRow ==
    pdf_report # <<>> =>
        /\ PrimaryColors # <<>> =>
               TableAsClaimed(pdf_report[1].primary_colors, PrimaryColors)
        /\ TableAsClaimed(pdf_report[1].secondary_colors, SecondaryColors)

\* main ended before an extractor was built: no attempt, no source, no
\* analysis, no report
NothingStarted ==
    /\ current_retry = 0
    /\ styles = <<>>
    /\ NothingProduced
    /\ result = "running"

(***************************************************************************)
(* C10: the process of the command line entry point ends with status 0     *)
(* only when the reports were produced or the user cancelled, and with a   *)
(* nonzero status when --url is missing (no extraction having started) and *)
(* when an exception reaches the handler of the entry point.               *)
(***************************************************************************)
C10_ExitStatus ==
    pc = "exited" =>
        /\ exit_code = 0 =>
               \/ result = "reports"
               \/ message = "Operation cancelled by user."
        /\ message = "Error: URL is required" => exit_code # 0 /\ NothingStarted
        /\ message = "An error occurred" => exit_code # 0

\* the page of the end-to-end example: one <style> block, StyleBlockA, no
\* linked stylesheet and no style attribute, and no page query failing
ExamplePage ==
    /\ page.inline = <<StyleBlockA>>
    /\ page.external = <<>>
    /\ page.attrs = <<>>
    /\ page.raises = 0

White == <<"#", "f", "f", "f", "f", "f", "f">>
HelveticaNeue == <<"Helvetica", " ", "Neue">>

(***************************************************************************)
(* C11: a complete extract_branding run on the page whose only CSS is the  *)
(* <style> block "body { color: #FFF; font-family: 'Helvetica Neue',       *)
(* sans-serif; }" yields the color set {#ffffff}, the font set             *)
(* {Helvetica Neue}, top_fonts(3) = [Helvetica Neue], top_colors(3) =      *)
(* [#ffffff], and a JSON report that lists exactly one style source.       *)
(* extract_css also stores the computed styles of the body as a source:    *)
(* TLC finds this violated.                                                *)
(***************************************************************************)
C11_EndToEndExample ==
    (RunComplete /\ ExamplePage) =>
        /\ colors = {White}
        /\ fonts = {HelveticaNeue}
        /\ get_top_fonts(3) = <<HelveticaNeue>>
        /\ get_top_colors(3) = <<White>>
        /\ json_report[1].colors.all = {White}
        /\ json_report[1].fonts.all = {HelveticaNeue}
        /\ Len(json_report[1].stylesheets) = 1

(***************************************************************************)
(* C12: analyze_themes is a pure, idempotent function of the aggregator    *)
(* state: every step that changes the theme summary sets it to             *)
(* primary_colors = get_top_colors(3), fonts = get_top_fonts(3),           *)
(* color_scheme = the full color set, and leaves the font and color sets,  *)
(* the frequency tables, the CSS variables and the style sources           *)
(* unchanged; a second call on the state it leaves gives the same summary. *)
(***************************************************************************)
C12_AnalyzeThemesPure ==
    [][themes' # themes =>
           /\ themes' = <<[primary_colors |-> get_top_colors(3),
                           fonts |-> get_top_fonts(3),
                           color_scheme |-> colors]>>
           /\ UNCHANGED <<fonts, colors, font_frequency, color_frequency,
                          css_variables, styles>>
           /\ <<ThemeSummary(Aggregate')>> = themes']_vars

\* analyze_themes was called between the two analysis passes, where
\* extract_branding does not call it, on more colors than the summary lists
C12_Witness ==
    /\ pc = "extract_colors"
    /\ themes = <<ThemeSummary(Aggregate)>>
    /\ Len(themes[1].primary_colors) = 3
    /\ Cardinality(colors) > 3

\* the literals of the collected sources that write the color r, g, b as
\* rgb(r,g,b), as rgba(r,g,b,a) with any alpha, or as its 6-digit hex literal
LiteralPlaces(r, g, b) ==
    UNION {{<<s, i>> : i \in {n \in 1..Len(SourceTexts[s]) :
                LET item == SourceTexts[s][n]
                IN  \/ item.k \in {"rgb", "rgba"} /\ <<item.r, item.g, item.b>> = <<r, g, b>>
                    \/ item = HexOf(r, g, b)}} :
           s \in 1..Len(SourceTexts)}

\* the components of the rgb and rgba literals of the collected sources that
\* lie in 0..255
RgbWritten ==
    {<<SourceTexts[p[1]][p[2]].r, SourceTexts[p[1]][p[2]].g, SourceTexts[p[1]][p[2]].b>> :
        p \in {q \in UNION {{<<s, i>> : i \in 1..Len(SourceTexts[s])} :
                              s \in 1..Len(SourceTexts)} :
                  /\ SourceTexts[q[1]][q[2]].k \in {"rgb", "rgba"}
                  /\ \A n \in {SourceTexts[q[1]][q[2]].r, SourceTexts[q[1]][q[2]].g,
                               SourceTexts[q[1]][q[2]].b} : n \in 0..255}}

(***************************************************************************)
(* C13: for r, g, b in 0..255 and any alpha a, rgb(r,g,b) and              *)
(* rgba(r,g,b,a) are recorded under the same color token, "#" and the two  *)
(* lowercase hex digits of r, g and b, the token of the equivalent 6-digit *)
(* hex literal, and each occurrence adds one to that entry: after one      *)
(* analyze_styles pass the entry counts the occurrences of the three       *)
(* forms together.                                                         *)
(* rgba_pattern takes an alpha of digits and dots only; rgba(r,g,b,50%) is *)
(* not matched and not counted: TLC finds this violated.                   *)
(***************************************************************************)
C13_RgbRgbaSameEntry ==
    FirstPassDone =>
        \A c \in RgbWritten :
            LET token == <<"#">> \o TwoHex(c[1]) \o TwoHex(c[2]) \o TwoHex(c[3])
            IN  /\ token \in colors
                /\ DictGet(color_frequency, token, 0)
                       = Cardinality(LiteralPlaces(c[1], c[2], c[3]))

\* the same with the alpha values rgba_pattern accepts: the part of C13 that
\* the code keeps
RgbRgbaSameEntryOnDecimalAlpha ==
    (FirstPassDone /\ \A s \in 1..Len(SourceTexts) : \A i \in 1..Len(SourceTexts[s]) :
                          SourceTexts[s][i].k = "rgba" => MatchesAlpha(SourceTexts[s][i].a))
        => C13_RgbRgbaSameEntry

\* the hexadecimal digits in upper case, indexed like HexDigitOf
UpperHexDigitOf == <<"0", "1", "2", "3", "4", "5", "6", "7",
                     "8", "9", "A", "B", "C", "D", "E", "F">>

\* a hexadecimal digit in lower case
LowerDigit(c) ==
    IF \E i \in 11..16 : UpperHexDigitOf[i] = c
    THEN HexDigitOf[CHOOSE i \in 11..16 : UpperHexDigitOf[i] = c]
    ELSE c

\* the hex literals of the collected sources with exactly n digits
HexLiterals(n) ==
    {SourceTexts[p[1]][p[2]].run :
        p \in {q \in UNION {{<<s, i>> : i \in 1..Len(SourceTexts[s])} :
                              s \in 1..Len(SourceTexts)} :
                  /\ SourceTexts[q[1]][q[2]].k = "hex"
                  /\ Len(SourceTexts[q[1]][q[2]].run) = n
                  /\ \A i \in 1..n : HexValue(SourceTexts[q[1]][q[2]].run[i]) >= 0}}

\* the token the claim gives a 3-digit and a 6-digit hex literal
Doubled(run) ==
    <<"#", LowerDigit(run[1]), LowerDigit(run[1]), LowerDigit(run[2]),
      LowerDigit(run[2]), LowerDigit(run[3]), LowerDigit(run[3])>>
Lowered(run) == <<"#">> \o [i \in 1..6 |-> LowerDigit(run[i])]

\* every literal of the collected sources is a 3-digit or 6-digit hex literal
OnlyHexLiterals ==
    \A s \in 1..Len(SourceTexts) : \A i \in 1..Len(SourceTexts[s]) :
        SourceTexts[s][i].run \in HexLiterals(3) \cup HexLiterals(6)

(***************************************************************************)
(* C14: hex normalization.  After an analyze_styles pass every 3-digit hex *)
(* literal #xyz of the sources is recorded as #xxyyzz, each digit doubled  *)
(* and lowercased; every 6-digit literal already in lower case is recorded *)
(* unchanged; a 6-digit literal with uppercase digits is recorded as its   *)
(* lowercase form.  Where the sources hold no other literal, nothing else  *)
(* is recorded.                                                            *)
(***************************************************************************)
C14_HexNormalization ==
    FirstPassDone =>
        /\ \A run \in HexLiterals(3) :
               Doubled(run) \in colors \cap KeySet(color_frequency)
        /\ \A run \in HexLiterals(6) :
               /\ Lowered(run) \in colors \cap KeySet(color_frequency)
               /\ (\A i \in 1..6 : run[i] \in LowerHexDigits)
                      => (<<"#">> \o run) \in colors \cap KeySet(color_frequency)
        /\ OnlyHexLiterals =>
               /\ colors = {Doubled(run) : run \in HexLiterals(3)}
                               \cup {Lowered(run) : run \in HexLiterals(6)}
               /\ KeySet(color_frequency) = colors

\* a pass over a 3-digit literal with an uppercase digit and a 6-digit
\* literal with an uppercase digit, recorded under two lowercase tokens
C14_Witness ==
    /\ FirstPassDone
    /\ OnlyHexLiterals
    /\ \E run \in HexLiterals(3) : "F" \in {run[i] : i \in 1..3}
    /\ \E run \in HexLiterals(6) : "F" \in {run[i] : i \in 1..6}
    /\ Cardinality(colors) = 2
    /\ \A c \in colors : IsColorToken(c)

\* the places <<source, item, declaration>> of the declarations of the :root
\* blocks of the collected sources
DeclPlaces ==
    UNION {UNION {{<<s, i, j>> : j \in 1..Len(SourceTexts[s][i].decls)} :
                  i \in 1..Len(SourceTexts[s])} : s \in 1..Len(SourceTexts)}

\* the key and the value a declaration is stored under
KeyAt(p) ==
    <<"var(", "--">>
        \o Strip(SourceTexts[p[1]][p[2]].decls[p[3]].name, Whitespace) \o <<")">>
ValueAt(p) == Strip(SourceTexts[p[1]][p[2]].decls[p[3]].value, Whitespace)

\* place p comes after place q: a later source, or a later place in the
\* same source
After(p, q) ==
    \/ p[1] > q[1]
    \/ p[1] = q[1] /\ p[2] > q[2]
    \/ p[1] = q[1] /\ p[2] = q[2] /\ p[3] > q[3]

\* the last declaration of key
LastPlace(key) ==
    CHOOSE p \in DeclPlaces :
        /\ KeyAt(p) = key
        /\ \A q \in DeclPlaces : KeyAt(q) = key => (q = p \/ After(p, q))

\* the token of a cleaned candidate under last-writer-wins over all sources
TokenByLastWriter(c) ==
    IF StartsWithVar(c) /\ \E p \in DeclPlaces : KeyAt(p) = c
    THEN ValueAt(LastPlace(c))
    ELSE c

(***************************************************************************)
(* C15: CSS variable definitions follow last-writer-wins in collection     *)
(* order.  Once analyze_styles has run, css_variables has exactly the keys *)
(* "var(--name)" of the :root declarations of the sources, each mapped to  *)
(* the value of the last declaration of that name, sources taken in        *)
(* collection order and declarations in text order within a source; and    *)
(* the font tokens recorded are those of the candidates of every source    *)
(* resolved with this complete mapping, also where the candidate stands in *)
(* a source collected before the one that declares the variable.           *)
(***************************************************************************)
C15_LastWriterWins ==
    Analysed =>
        /\ KeySet(css_variables) = {KeyAt(p) : p \in DeclPlaces}
        /\ \A key \in KeySet(css_variables) :
               DictGet(css_variables, key, <<>>) = ValueAt(LastPlace(key))
        /\ fonts = {TokenByLastWriter(CandidateAt(SourceTexts, m)) :
                        m \in {n \in CandidatePlaces(SourceTexts) :
                                  PassesGenericFilter(CandidateAt(SourceTexts, n))}}

\* a variable declared twice in one source with different values and again
\* in a later source, used by a font-family of a source collected before the
\* last declaration
C15_Witness ==
    /\ Analysed
    /\ \E p, q, r \in DeclPlaces :
           /\ KeyAt(p) = KeyAt(q) /\ KeyAt(q) = KeyAt(r)
           /\ p[1] = q[1] /\ After(q, p) /\ ValueAt(p) # ValueAt(q)
           /\ r[1] > q[1] /\ r = LastPlace(KeyAt(r)) /\ ValueAt(r) # ValueAt(q)
           /\ \E m \in CandidatePlaces(SourceTexts) :
                  /\ m[1] < r[1]
                  /\ CandidateAt(SourceTexts, m) = KeyAt(r)
                  /\ ValueAt(r) \in fonts

\* fetch_page is running: in an attempt, or asleep between two attempts
InFetch == pc \in {"fetch_page", "sleep"}

(***************************************************************************)
(* C16: fetch_page is a bounded retry state machine with at most 3         *)
(* attempts.  The counter of failed attempts stays within 0..2 while it    *)
(* runs.  An attempt starts only when fetch_page is called or a backoff    *)
(* ends.  An attempt ends in success, and fetch_page returns True with no  *)
(* further attempt; or it fails before the third, the counter goes up by   *)
(* one and the backoff begins, after which the next attempt starts; or it  *)
(* fails as the third and fetch_page returns False.  False is returned     *)
(* only by the failure of the third attempt, whichever except clause       *)
(* caught it.  And fetch_page always terminates.                           *)
(***************************************************************************)
C16_BoundedRetry ==
    /\ [](InFetch => current_retry \in 0..max_retries)
    /\ [](pc = "sleep" => current_retry \in 1..max_retries)
    /\ [][/\ (pc' = "fetch_page" /\ pc # "fetch_page") =>
                 \/ pc = "main" /\ current_retry' = 0
                 \/ pc = "sleep" /\ current_retry' = current_retry
          /\ (pc = "fetch_page" /\ pc' # "exited") =>
                 \/ pc' = "extract_fonts"
                 \/ /\ current_retry < max_retries
                    /\ pc' = "sleep"
                    /\ current_retry' = current_retry + 1
                 \/ /\ current_retry = max_retries
                    /\ pc' = "fetch_failed"
          /\ (pc = "sleep" /\ pc' # "exited") => pc' = "fetch_page"
          /\ pc' = "fetch_failed" =>
                 pc = "fetch_page" /\ current_retry = max_retries
          /\ pc' = "extract_fonts" => pc = "fetch_page"]_vars
    /\ InFetch ~> ~InFetch

\* fetch_page has returned False after a third attempt that failed in page
\* processing, with self.styles filled
C16_Witness ==
    /\ pc = "fetch_failed"
    /\ styles # <<>>

\* every key of a frequency table stays a key, with a count no smaller
Grows(counter, counter_) ==
    \A k \in KeySet(counter) :
        k \in KeySet(counter_) /\ DictGet(counter_, k, 0) >= DictGet(counter, k, 0)

(***************************************************************************)
(* C17: in every reachable state, whatever analyze_styles passes and       *)
(* top-N, theme and report queries have run, the full font set is the set  *)
(* of keys of the font frequency table, the full color set is the set of   *)
(* keys of the color frequency table, and every stored count is at least   *)
(* 1; and in every step no count decreases and no token is removed from a  *)
(* table or a set.                                                         *)
(***************************************************************************)
C17_TablesAndSetsAgree ==
    /\ [](/\ fonts = KeySet(font_frequency)
          /\ colors = KeySet(color_frequency)
          /\ \A i \in 1..Len(font_frequency) : font_frequency[i].v >= 1
          /\ \A i \in 1..Len(color_frequency) : color_frequency[i].v >= 1)
    /\ [][/\ Grows(font_frequency, font_frequency')
          /\ Grows(color_frequency, color_frequency')
          /\ fonts \subseteq fonts'
          /\ colors \subseteq colors']_vars

\* two passes and every report query have run over several fonts and colors,
\* and the second pass has raised counts
C17_Witness ==
    /\ RunComplete
    /\ pdf_report # <<>>
    /\ Cardinality(fonts) >= 2
    /\ Cardinality(colors) >= 2
    /\ \E i \in 1..Len(color_frequency) : color_frequency[i].v >= 4
    /\ \E i \in 1..Len(font_frequency) : font_frequency[i].v >= 2

====
